---- MODULE Spec2Model ----
(***************************************************************************)
(* Widget rendering of geekmagic-hacs: ChartWidget (widgets/chart.py),     *)
(* GaugeWidget (widgets/gauge.py) and the bar layout helper                *)
(* (widgets/layout_helpers.py).                                            *)
(*                                                                         *)
(* Numbers.  A float of the program is a rational here: the integer n      *)
(* stands for n / Scale, so with Scale = 2 the integer 5 is 2.5.  Texts    *)
(* are sequences of one-character strings, so that upper(), slicing and    *)
(* number formatting are computed and not assumed.  Python's None is the   *)
(* empty text for optional texts, the colour "none" for optional colours   *)
(* and present = FALSE for an entity state.                                *)
(***************************************************************************)
EXTENDS Integers, Sequences, FiniteSets, TLC

VARIABLES
    chart,       \* the ChartWidget: its configuration and _history_data
    chartCalls,  \* the draw calls of the ChartWidget's last render since its
                 \* history was set, in order
    gauge,       \* the GaugeWidget: the fields __init__ sets
    gaugeInit,   \* the GaugeWidget's fields as __init__ left them
    gaugeArg,    \* the entity state the last GaugeWidget.render saw
    gaugeOut,    \* the Component the last GaugeWidget.render returned
    barCalls,    \* the draw calls of the last layout_bar_with_label, in order
    chartArg,    \* the context and entity state the last ChartWidget.render saw
    barArg,      \* the context the last layout_bar_with_label drew in
    slotLayout,  \* the slot layout: its slot count and slot assignments
    layoutOut,   \* the outcome of the last set_widget and the widget renders
                 \* of the last layout render, in order
    textWidget,  \* the TextWidget: its options and widget configuration
    textOut,     \* the arguments and the result of the last _get_text
    helperOut    \* the arguments and the outcome of the last call of a layout
                 \* helper: its result and its draw calls, in order

layoutVars == <<slotLayout, layoutOut>>

textVars == <<textWidget, textOut>>

vars == <<chart, chartCalls, gauge, gaugeInit, gaugeArg, gaugeOut, barCalls, chartArg, barArg, layoutVars, textVars, helperOut>>

(***************************************************************************)
(* Bounds of the model.                                                    *)
(***************************************************************************)
Scale == 2
MaxHistory == 3
MaxThresholds == 3

(***************************************************************************)
(* Numbers and texts.                                                      *)
(***************************************************************************)
Whole(n) == n * Scale

Abs(n) == IF n < 0 THEN -n ELSE n

Max2(a, b) == IF a >= b THEN a ELSE b

Min2(a, b) == IF a <= b THEN a ELSE b

\* int(x * p / 100) for x >= 0: Python's int() truncates
PctInt(x, p) == (x * p) \div 100

\* round(n / d) for n >= 0, d > 0, ties to the even neighbour, as the
\* format specs .0f and .1f round
RoundHalfEven(n, d) ==
    LET q == n \div d
        r == n % d
    IN  IF 2 * r < d THEN q
        ELSE IF 2 * r > d THEN q + 1
        ELSE IF q % 2 = 0 THEN q ELSE q + 1

DigitChar(k) == ToString(k)

RECURSIVE Digits(_)
\* str(n) for an integer n >= 0, one character per element
Digits(n) == IF n < 10 THEN <<DigitChar(n)>>
             ELSE Digits(n \div 10) \o <<DigitChar(n % 10)>>

\* f"{v:.1f}": one decimal, the sign kept even when the digits round to zero
FormatOneDecimal(v) ==
    LET t == RoundHalfEven(Abs(v) * 10, Scale)
    IN  (IF v < 0 THEN <<"-">> ELSE <<>>)
        \o Digits(t \div 10) \o <<".">> \o Digits(t % 10)

\* f"{v:.0f}": no decimals, the sign kept even when the digits round to zero
FormatNoDecimal(v) ==
    (IF v < 0 THEN <<"-">> ELSE <<>>) \o Digits(RoundHalfEven(Abs(v), Scale))

UpperChar(c) ==
    CASE c = "a" -> "A" [] c = "b" -> "B" [] c = "c" -> "C" [] c = "d" -> "D"
      [] c = "e" -> "E" [] c = "m" -> "M" [] c = "o" -> "O" [] c = "p" -> "P"
      [] c = "r" -> "R" [] c = "t" -> "T" [] c = "u" -> "U" [] c = "y" -> "Y"
      [] OTHER -> c

\* str.upper()
Upper(s) == [i \in 1..Len(s) |-> UpperChar(s[i])]

\* s[:n] of Python for n >= 0
Prefix(s, n) == SubSeq(s, 1, Min2(n, Len(s)))

RECURSIVE SeqsUpTo(_, _)
\* every sequence over S of length at most n
SeqsUpTo(S, n) ==
    IF n = 0 THEN {<<>>}
    ELSE LET shorter == SeqsUpTo(S, n - 1)
         IN  shorter \cup {Append(s, x) : s \in {t \in shorter : Len(t) = n - 1}, x \in S}

(***************************************************************************)
(* Entity states, as the state provider hands them to a widget: absent    *)
(* (present = FALSE), or a primary value that is a number or is not        *)
(* (numeric), one named attribute that is a number or is not, and a unit   *)
(* of measurement, empty when the state has none.                          *)
(***************************************************************************)
NoUnit == <<>>

NoState ==
    [present |-> FALSE, numeric |-> FALSE, value |-> 0,
     attr_numeric |-> FALSE, attr_value |-> 0, unit |-> NoUnit]

Units == {NoUnit, <<"%">>, <<"W">>}

\* 0, 1/Scale, 10, 42, 65, 95 and two negative readings
Readings == {0, 1, Whole(10), Whole(42), Whole(65), Whole(95), -1, -Whole(20)}

\* a state whose primary value is the number v
Reading(v, u) ==
    [present |-> TRUE, numeric |-> TRUE, value |-> v,
     attr_numeric |-> FALSE, attr_value |-> 0, unit |-> u]

\* a state whose primary value is not a number ("unavailable")
NonNumeric(u) ==
    [present |-> TRUE, numeric |-> FALSE, value |-> 0,
     attr_numeric |-> FALSE, attr_value |-> 0, unit |-> u]

\* s with its named attribute set to the number a
WithAttribute(s, a) == [s EXCEPT !.attr_numeric = TRUE, !.attr_value = a]

States ==
    {NoState}
    \cup {Reading(v, u) : v \in Readings, u \in Units}
    \cup {NonNumeric(u) : u \in Units}
    \cup {WithAttribute(Reading(Whole(10), NoUnit), Whole(65)),
          WithAttribute(NonNumeric(NoUnit), Whole(65))}

\* the states a gauge is rendered with
GaugeStates ==
    {s \in States : s.numeric => s.value \in {0, 1, Whole(42), Whole(65), -Whole(20)}}

\* the states a chart is rendered with
ChartStates == {NoState, Reading(-1, <<"%">>), Reading(Whole(42), NoUnit), NonNumeric(<<"%">>)}

(***************************************************************************)
(* Colours (const.py) and the render contexts of the model.                *)
(***************************************************************************)
NoColor == "none"

COLOR_CYAN == "cyan"

COLOR_GRAY == "gray"

COLOR_DARK_GRAY == "dark_gray"

COLOR_WHITE == "white"

\* RenderContext: the width and height of the widget's rectangle
Contexts == {[width |-> 240, height |-> 240], [width |-> 120, height |-> 60],
             [width |-> 30, height |-> 20]}

NoCalls == <<>>

\* no context: nothing has been drawn yet
NoCtx == [width |-> 0, height |-> 0]

\* no render of the chart yet, and no set_history: the buffer last set is the
\* empty one
NoChartArg == [ctx |-> NoCtx, state |-> NoState, history |-> <<>>]

(***************************************************************************)
(* ChartWidget (widgets/chart.py).                                         *)
(***************************************************************************)
NoLabel == <<>>

ChartLabels == {NoLabel, <<"c", "p", "u">>, <<"t", "e", "m", "p", "e", "r", "a", "t", "u", "r", "e">>}

\* 0.0, 1.0 and a sample that is neither
Samples == {0, Whole(1), Whole(1) + 1}

Histories == SeqsUpTo(Samples, MaxHistory)

\* ChartWidget.__init__: the options read from the configuration, and an
\* empty history
ChartWidgetInit(label, color, show_value, show_range, fill) ==
    [label |-> label, color |-> color, hours |-> 24,
     show_value |-> show_value, show_range |-> show_range,
     fill |-> fill, color_gradient |-> FALSE,
     history_data |-> <<>>]

\* _is_binary_data testing every sample against 1.0 alone
IsBinaryData_OnlyOnes(data) ==
    IF data = <<>> THEN FALSE
    ELSE \A i \in 1..Len(data) : data[i] = Whole(1)

\* _is_binary_data with any() in the place of all()
IsBinaryData_Any(data) ==
    IF data = <<>> THEN FALSE
    ELSE \E i \in 1..Len(data) : data[i] \in {0, Whole(1)}

\* ChartWidget._is_binary_data
IsBinaryData(data) ==
    IF data = <<>> THEN FALSE
    ELSE \A i \in 1..Len(data) : data[i] \in {0, Whole(1)}

SeqMin(data) == CHOOSE m \in {data[i] : i \in 1..Len(data)} :
                    \A i \in 1..Len(data) : m <= data[i]

SeqMax(data) == CHOOSE m \in {data[i] : i \in 1..Len(data)} :
                    \A i \in 1..Len(data) : m >= data[i]

\* the test of line 122 without its length check
HasEnoughSamples_NonEmpty(data) == data # <<>>

\* ChartWidget.render, line 122: the history can be charted
HasEnoughSamples(data) == data # <<>> /\ Len(data) >= 2

TextCall(text, x, y, font, color, anchor) ==
    [op |-> "text", text |-> text, x |-> x, y |-> y, font |-> font,
     color |-> color, anchor |-> anchor]

NoDataText == <<"N", "o", " ", "d", "a", "t", "a">>

\* the header label cut to the whole limit before the marker is appended
ChartHeaderCalls_NoMarkerRoom(w, ctx, padding, header_y) ==
    IF w.label # NoLabel
    THEN LET max_label_len == Max2(3, ctx.width \div 12)
             name == Upper(w.label)
             display_name == IF Len(name) > max_label_len
                             THEN Prefix(name, max_label_len) \o <<".", ".">>
                             ELSE name
         IN  <<TextCall(display_name, padding, header_y, "small", COLOR_GRAY, "lm")>>
    ELSE <<>>

\* ChartWidget.render, lines 95-108: the header label
ChartHeaderCalls(w, ctx, padding, header_y) ==
    IF w.label # NoLabel
    THEN LET max_label_len == Max2(3, ctx.width \div 12)
             name == Upper(w.label)
             display_name == IF Len(name) > max_label_len
                             THEN Prefix(name, max_label_len - 2) \o <<".", ".">>
                             ELSE name
         IN  <<TextCall(display_name, padding, header_y, "small", COLOR_GRAY, "lm")>>
    ELSE <<>>

\* the current value drawn for every state there is, numeric or not
ChartValueCalls_AnyState(w, ctx, state, padding, header_y) ==
    LET unit == IF state.present THEN state.unit ELSE NoUnit
    IN  IF w.show_value /\ state.present
        THEN <<TextCall(FormatOneDecimal(state.value) \o unit, ctx.width - padding,
                        header_y, "regular",
                        IF w.color # NoColor THEN w.color ELSE COLOR_CYAN, "rm")>>
        ELSE <<>>

\* ChartWidget.render, lines 72-82 and 110-119: the current value
ChartValueCalls(w, ctx, state, padding, header_y) ==
    LET has_value == state.present /\ state.numeric
        unit == IF state.present THEN state.unit ELSE NoUnit
    IN  IF w.show_value /\ has_value
        THEN <<TextCall(FormatOneDecimal(state.value) \o unit, ctx.width - padding,
                        header_y, "regular",
                        IF w.color # NoColor THEN w.color ELSE COLOR_CYAN, "rm")>>
        ELSE <<>>

\* the min/max footer drawn whatever show_range is
RangeCalls_Always(w, ctx, data, padding, chart_bottom) ==
    LET range_y == chart_bottom + PctInt(ctx.height, 8)
    IN  <<TextCall(FormatOneDecimal(SeqMin(data)), padding, range_y,
                   "small", COLOR_GRAY, "lm"),
          TextCall(FormatOneDecimal(SeqMax(data)), ctx.width - padding, range_y,
                   "small", COLOR_GRAY, "rm")>>

\* ChartWidget.render, lines 139-159: the min/max footer of the sparkline
RangeCalls(w, ctx, data, padding, chart_bottom) ==
    IF w.show_range
    THEN LET range_y == chart_bottom + PctInt(ctx.height, 8)
         IN  <<TextCall(FormatOneDecimal(SeqMin(data)), padding, range_y,
                        "small", COLOR_GRAY, "lm"),
               TextCall(FormatOneDecimal(SeqMax(data)), ctx.width - padding, range_y,
                        "small", COLOR_GRAY, "rm")>>
    ELSE <<>>

\* the chart body with the sparkline drawn over the timeline bar of a binary
\* history
ChartBodyCalls_BothCharts(w, ctx, padding, chart_top, chart_bottom) ==
    LET data == w.history_data
        chart_rect == <<padding, chart_top, ctx.width - padding, chart_bottom>>
        color == IF w.color # NoColor THEN w.color ELSE COLOR_CYAN
        sparkline == <<[op |-> "sparkline", rect |-> chart_rect, data |-> data,
                        color |-> color, fill |-> w.fill, gradient |-> w.color_gradient]>>
    IN  IF HasEnoughSamples(data)
        THEN (IF IsBinaryData(data)
              THEN <<[op |-> "timeline_bar", rect |-> chart_rect, data |-> data,
                      on_color |-> color]>>
              ELSE <<>>)
             \o sparkline \o RangeCalls(w, ctx, data, padding, chart_bottom)
        ELSE <<TextCall(NoDataText, ctx.width \div 2, (chart_top + chart_bottom) \div 2,
                        "small", COLOR_GRAY, "mm")>>

\* ChartWidget.render, lines 121-170: timeline bar, sparkline with its
\* min/max footer, or the "No data" placeholder
ChartBodyCalls(w, ctx, padding, chart_top, chart_bottom) ==
    LET data == w.history_data
        chart_rect == <<padding, chart_top, ctx.width - padding, chart_bottom>>
        color == IF w.color # NoColor THEN w.color ELSE COLOR_CYAN
    IN  IF HasEnoughSamples(data)
        THEN IF IsBinaryData(data)
             THEN <<[op |-> "timeline_bar", rect |-> chart_rect, data |-> data,
                     on_color |-> color]>>
             ELSE <<[op |-> "sparkline", rect |-> chart_rect, data |-> data,
                     color |-> color, fill |-> w.fill, gradient |-> w.color_gradient]>>
                  \o RangeCalls(w, ctx, data, padding, chart_bottom)
        ELSE <<TextCall(NoDataText, ctx.width \div 2, (chart_top + chart_bottom) \div 2,
                        "small", COLOR_GRAY, "mm")>>

\* ChartWidget.render: the draw calls it issues, in order
ChartRenderCalls(w, ctx, state) ==
    LET padding == PctInt(ctx.width, 8)
        header_height == IF w.label # NoLabel THEN PctInt(ctx.height, 15)
                         ELSE PctInt(ctx.height, 8)
        footer_height == IF w.show_range THEN PctInt(ctx.height, 12)
                         ELSE PctInt(ctx.height, 4)
        chart_top == header_height
        chart_bottom == ctx.height - footer_height
        header_y == PctInt(ctx.height, 8)
    IN  ChartHeaderCalls(w, ctx, padding, header_y)
        \o ChartValueCalls(w, ctx, state, padding, header_y)
        \o ChartBodyCalls(w, ctx, padding, chart_top, chart_bottom)

\* ChartWidget.set_history; the caller sets the history at the start of a
\* render cycle, on a canvas nothing is drawn on yet
SetHistory(data) ==
    /\ chart' = [chart EXCEPT !.history_data = data]
    /\ chartCalls' = NoCalls
    /\ chartArg' = [NoChartArg EXCEPT !.history = data]
    /\ UNCHANGED <<gauge, gaugeInit, gaugeArg, gaugeOut, barCalls, barArg, layoutVars, textVars, helperOut>>

\* a render that uses the buffer up
ChartRender_Consuming(ctx, state) ==
    /\ chartCalls' = ChartRenderCalls(chart, ctx, state)
    /\ chartArg' = [ctx |-> ctx, state |-> state, history |-> chartArg.history]
    /\ chart' = [chart EXCEPT !.history_data = <<>>]
    /\ UNCHANGED <<gauge, gaugeInit, gaugeArg, gaugeOut, barCalls, barArg, layoutVars, textVars, helperOut>>

\* ChartWidget.render
ChartRender(ctx, state) ==
    /\ chartCalls' = ChartRenderCalls(chart, ctx, state)
    /\ chartArg' = [ctx |-> ctx, state |-> state, history |-> chartArg.history]
    /\ UNCHANGED <<chart, gauge, gaugeInit, gaugeArg, gaugeOut, barCalls, barArg, layoutVars, textVars, helperOut>>

(***************************************************************************)
(* Helpers of widgets/helpers.py that GaugeWidget.render calls.            *)
(***************************************************************************)
\* the number extract_numeric returns when there is no reading
NumericDefault == 0

\* extract_numeric: the primary value, or the named attribute when one is
\* configured, as a number; the default when the state is absent or the
\* raw value is not a number
ExtractNumeric(state, attribute) ==
    IF ~state.present THEN NumericDefault
    ELSE IF attribute # ""
         THEN (IF state.attr_numeric THEN state.attr_value ELSE NumericDefault)
         ELSE (IF state.numeric THEN state.value ELSE NumericDefault)

\* get_unit: the state's unit of measurement, empty when it has none
GetUnit(state) == state.unit

\* A percentage is the rational n / d with d > 0, kept as <<n, d>>.
PctLeq(p, q) == p[1] * q[2] <= q[1] * p[2]

PctEq(p, q) == p[1] * q[2] = q[1] * p[2]

\* calculate_percent: clamp((value - min) / (max - min) * 100, 0, 100), and 0
\* for the degenerate range max = min
CalculatePercent(value, min_value, max_value) ==
    IF max_value = min_value THEN <<0, 1>>
    ELSE LET d == Abs(max_value - min_value)
             n == IF max_value > min_value THEN (value - min_value) * 100
                  ELSE (min_value - value) * 100
         IN  IF n < 0 THEN <<0, 1>>
             ELSE IF n > 100 * d THEN <<100, 1>>
             ELSE <<n, d>>

FriendlyName == <<"S", "e", "n", "s", "o", "r">>

\* resolve_label: the configured label, else the state's display name
ResolveLabel(label, state) ==
    IF label # NoLabel THEN label
    ELSE IF state.present THEN FriendlyName ELSE NoLabel

\* format_value_with_unit: the value text followed by the unit
FormatValueWithUnit(display_value, unit) == display_value \o unit

(***************************************************************************)
(* GaugeWidget (widgets/gauge.py).                                         *)
(***************************************************************************)
NoIcon == ""

Placeholder == <<"-", "-">>

NoComponent == [kind |-> "none"]

\* GaugeWidget.__init__: the fields read from the configuration
GaugeWidgetInit(label, color, style, min_value, max_value, icon, show_value, unit, attribute, color_thresholds) ==
    [label |-> label, color |-> color, style |-> style,
     min_value |-> min_value, max_value |-> max_value, icon |-> icon,
     show_value |-> show_value, unit |-> unit, attribute |-> attribute,
     color_thresholds |-> color_thresholds]

RECURSIVE InsertByValue(_, _)
\* t put behind every entry of the ascending list whose value is <= t's
InsertByValue(sorted, t) ==
    IF sorted = <<>> THEN <<t>>
    ELSE IF sorted[Len(sorted)].value <= t.value THEN Append(sorted, t)
    ELSE Append(InsertByValue(SubSeq(sorted, 1, Len(sorted) - 1), t), sorted[Len(sorted)])

\* the thresholds left in the order they are configured in
SortedByValue_AsConfigured(thresholds) == thresholds

RECURSIVE SortedByValue(_)
\* sorted(thresholds, key=value): ascending and stable
SortedByValue(thresholds) ==
    IF thresholds = <<>> THEN <<>>
    ELSE InsertByValue(SortedByValue(SubSeq(thresholds, 1, Len(thresholds) - 1)),
                       thresholds[Len(thresholds)])

RECURSIVE MatchingColor_Strict(_, _, _)
\* the loop of _get_threshold_color with > in the place of >=
MatchingColor_Strict(sorted, value, matching_color) ==
    IF sorted = <<>> THEN matching_color
    ELSE MatchingColor_Strict(Tail(sorted), value,
                              IF value > Head(sorted).value /\ Head(sorted).color # NoColor
                              THEN Head(sorted).color
                              ELSE matching_color)

RECURSIVE MatchingColor(_, _, _)
\* the loop of _get_threshold_color over the sorted list, from matching_color
MatchingColor(sorted, value, matching_color) ==
    IF sorted = <<>> THEN matching_color
    ELSE MatchingColor(Tail(sorted), value,
                       IF value >= Head(sorted).value /\ Head(sorted).color # NoColor
                       THEN Head(sorted).color
                       ELSE matching_color)

\* GaugeWidget._get_threshold_color
GetThresholdColor(color_thresholds, value) ==
    IF color_thresholds = <<>> THEN NoColor
    ELSE MatchingColor(SortedByValue(color_thresholds), value, NoColor)

\* GaugeWidget.render, lines 99-101: threshold colour > config colour > default
ResolveColor(w, value) ==
    LET threshold_color == GetThresholdColor(w.color_thresholds, value)
    IN  IF threshold_color # NoColor THEN threshold_color
        ELSE IF w.color # NoColor THEN w.color
        ELSE COLOR_CYAN

\* GaugeWidget.render, lines 89-91: the unit the widget holds after the call
RenderUnit(w, state) ==
    IF w.unit = NoUnit /\ state.present THEN GetUnit(state) ELSE w.unit

\* calculate_percent called with min and max in each other's place
RenderPercent_Swapped(w, value) == CalculatePercent(value, w.max_value, w.min_value)

\* GaugeWidget.render, lines 93-94
RenderPercent(w, value) == CalculatePercent(value, w.min_value, w.max_value)

\* GaugeWidget.render, lines 85-87 and 103-104: the value text
RenderValueText(w, state, value, unit) ==
    LET display_value == IF state.present THEN FormatNoDecimal(value) ELSE Placeholder
    IN  IF w.show_value THEN FormatValueWithUnit(display_value, unit) ELSE <<>>

\* the component with only the ring told apart: every other style, "arc"
\* included, gives the bar
RenderComponent_RingOrBar(w, percent, value_text, name, color) ==
    IF w.style = "ring"
    THEN [kind |-> "RingGauge", percent |-> percent, value |-> value_text,
          label |-> name, color |-> color, background |-> COLOR_DARK_GRAY]
    ELSE [kind |-> "BarGauge", percent |-> percent, value |-> value_text,
          label |-> name, color |-> color, icon |-> w.icon,
          background |-> COLOR_DARK_GRAY]

\* GaugeWidget.render, lines 106-129: the Component of the widget's style
RenderComponent(w, percent, value_text, name, color) ==
    IF w.style = "ring"
    THEN [kind |-> "RingGauge", percent |-> percent, value |-> value_text,
          label |-> name, color |-> color, background |-> COLOR_DARK_GRAY]
    ELSE IF w.style = "arc"
    THEN [kind |-> "ArcGauge", percent |-> percent, value |-> value_text,
          label |-> name, color |-> color, background |-> COLOR_DARK_GRAY]
    ELSE [kind |-> "BarGauge", percent |-> percent, value |-> value_text,
          label |-> name, color |-> color, icon |-> w.icon,
          background |-> COLOR_DARK_GRAY]

\* GaugeWidget.render
GaugeRender(state) ==
    LET value == ExtractNumeric(state, gauge.attribute)
        unit == RenderUnit(gauge, state)
    IN  /\ gauge' = [gauge EXCEPT !.unit = unit]
        /\ gaugeArg' = state
        /\ gaugeOut' = RenderComponent(gauge, RenderPercent(gauge, value),
                                       RenderValueText(gauge, state, value, unit),
                                       ResolveLabel(gauge.label, state),
                                       ResolveColor(gauge, value))
        /\ barCalls' = NoCalls
        /\ barArg' = NoCtx
        /\ UNCHANGED <<chart, chartCalls, chartArg, gaugeInit, layoutVars, textVars, helperOut>>

(***************************************************************************)
(* The bar gauge: the flex solver (widgets/flex_layout.py), the drawing    *)
(* surface's draw_bar and layout_bar_with_label (widgets/layout_helpers.py)*)
(***************************************************************************)
Box(x, y, width, height) == [x |-> x, y |-> y, width |-> width, height |-> height]

BoxRight(box) == box.x + box.width

BoxBottom(box) == box.y + box.height

BoxCenter(box) == <<box.x + box.width \div 2, box.y + box.height \div 2>>

\* the measured width of a text in a font of the context
TextWidth(text, font) == Len(text) * (IF font = "tiny" THEN 6 ELSE 12)

\* layout_bar_gauge: vertical when icon + label + gap + value is wider than
\* the container after padding (a tie stays horizontal); the regions of the
\* chosen mode, without the label when there is none and without the icon
\* when there is none or the mode is vertical
LayoutBarGauge(ctx, value_text, label_text, has_icon) ==
    LET padding == PctInt(ctx.width, 5)
        icon_size == Max2(10, PctInt(ctx.height, 23))
        gap == 4
        available == Max2(0, ctx.width - 2 * padding)
        icon_w == IF has_icon THEN icon_size + gap ELSE 0
        label_w == TextWidth(label_text, "tiny")
        value_w == Min2(available, TextWidth(value_text, "medium_bold"))
        use_vertical == icon_w + label_w + gap + TextWidth(value_text, "medium_bold")
                            > available
        row == PctInt(ctx.height, 50)
        band == PctInt(ctx.height, 40)
        names == {"value", "bar"}
                 \cup (IF label_text # NoLabel THEN {"label"} ELSE {})
                 \cup (IF has_icon /\ ~use_vertical THEN {"icon"} ELSE {})
        horizontal(r) ==
            CASE r = "icon" -> Box(padding, 0, Min2(icon_size, available), row)
              [] r = "label" -> Box(padding + icon_w, 0,
                                    Max2(0, available - icon_w - value_w), row)
              [] r = "value" -> Box(padding + available - value_w, 0, value_w, row)
              [] OTHER -> Box(padding, row, available, PctInt(ctx.height, 25))
        vertical(r) ==
            CASE r = "value" -> Box(padding, 0, available, band)
              [] r = "label" -> Box(padding, ctx.height - band, available, band)
              [] OTHER -> Box(padding, band, available, ctx.height - 2 * band)
    IN  [use_vertical |-> use_vertical,
         boxes |-> [r \in names |-> IF use_vertical THEN vertical(r) ELSE horizontal(r)]]

\* draw_bar: the width of the filled part of the track, percent / 100 of the
\* track's width, truncated to whole pixels
BarFillWidth(rect, percent) ==
    ((rect[3] - rect[1]) * percent[1]) \div (100 * percent[2])

\* the bar drawn with a fraction of 1 in the place of a percentage
BarCalls_Fraction(boxes, percent, color, background) ==
    IF "bar" \in DOMAIN boxes
    THEN LET box == boxes["bar"]
         IN  <<[op |-> "bar", rect |-> <<box.x, box.y, BoxRight(box), BoxBottom(box)>>,
                percent |-> <<percent[1], 100 * percent[2]>>, color |-> color,
                background |-> background]>>
    ELSE <<>>

\* layout_bar_with_label, lines 205-208: the bar
BarCalls(boxes, percent, color, background) ==
    IF "bar" \in DOMAIN boxes
    THEN LET box == boxes["bar"]
         IN  <<[op |-> "bar", rect |-> <<box.x, box.y, BoxRight(box), BoxBottom(box)>>,
                percent |-> percent, color |-> color, background |-> background]>>
    ELSE <<>>

\* the label drawn whether or not there is a label text and a region for it
LabelCalls_Unchecked(boxes, label, use_vertical) ==
    LET box == IF "label" \in DOMAIN boxes THEN boxes["label"] ELSE boxes["bar"]
    IN  IF use_vertical
        THEN <<TextCall(Upper(label), BoxCenter(box)[1], BoxCenter(box)[2],
                        "tiny", COLOR_GRAY, "mm")>>
        ELSE <<TextCall(Upper(label), box.x, BoxCenter(box)[2],
                        "tiny", COLOR_GRAY, "lm")>>

\* layout_bar_with_label, lines 210-219: the label
LabelCalls(boxes, label, use_vertical) ==
    IF "label" \in DOMAIN boxes /\ label # NoLabel
    THEN LET box == boxes["label"]
         IN  IF use_vertical
             THEN <<TextCall(Upper(label), BoxCenter(box)[1], BoxCenter(box)[2],
                             "tiny", COLOR_GRAY, "mm")>>
             ELSE <<TextCall(Upper(label), box.x, BoxCenter(box)[2],
                             "tiny", COLOR_GRAY, "lm")>>
    ELSE <<>>

\* the icon drawn whenever one is configured, in the value's region when the
\* solver gave the icon none
IconCalls_Configured(boxes, icon, icon_size, color) ==
    IF icon # NoIcon
    THEN LET box == IF "icon" \in DOMAIN boxes THEN boxes["icon"] ELSE boxes["value"]
         IN  <<[op |-> "icon", icon |-> icon, x |-> box.x,
                y |-> box.y + (box.height - icon_size) \div 2,
                size |-> icon_size, color |-> color]>>
    ELSE <<>>

\* layout_bar_with_label, lines 221-225: the icon
IconCalls(boxes, icon, icon_size, color) ==
    IF "icon" \in DOMAIN boxes /\ icon # NoIcon
    THEN LET box == boxes["icon"]
         IN  <<[op |-> "icon", icon |-> icon, x |-> box.x,
                y |-> box.y + (box.height - icon_size) \div 2,
                size |-> icon_size, color |-> color]>>
    ELSE <<>>

\* layout_bar_with_label: the draw calls it issues, in order
LayoutBarWithLabel(ctx, percent, label, value, color, background, icon) ==
    LET icon_size == Max2(10, PctInt(ctx.height, 23))
        layout == LayoutBarGauge(ctx, value, label, icon # NoIcon)
        use_vertical == layout.use_vertical
        boxes == layout.boxes
        value_calls ==
            IF "value" \in DOMAIN boxes
            THEN LET box == boxes["value"]
                 IN  IF use_vertical
                     THEN <<TextCall(value, BoxCenter(box)[1], BoxCenter(box)[2],
                                     "medium_bold", COLOR_WHITE, "mm")>>
                     ELSE <<TextCall(value, BoxRight(box), BoxCenter(box)[2],
                                     "medium_bold", COLOR_WHITE, "rm")>>
            ELSE <<>>
    IN  value_calls
        \o BarCalls(boxes, percent, color, background)
        \o LabelCalls(boxes, label, use_vertical)
        \o IconCalls(boxes, icon, icon_size, color)

\* BarGauge.render: the component hands its fields to layout_bar_with_label
DrawBarGauge(ctx) ==
    /\ gaugeOut.kind = "BarGauge"
    /\ barCalls' = LayoutBarWithLabel(ctx, gaugeOut.percent, gaugeOut.label,
                                      gaugeOut.value, gaugeOut.color,
                                      gaugeOut.background, gaugeOut.icon)
    /\ barArg' = ctx
    /\ UNCHANGED <<chart, chartCalls, chartArg, gauge, gaugeInit, gaugeArg, gaugeOut, layoutVars, textVars, helperOut>>

(***************************************************************************)
(* Slot layout managers (layouts/grid.py, layouts/hero.py,                 *)
(* layouts/split.py), after their contract: set_widget(slot_index, widget) *)
(* assigns one widget per slot, render walks the assigned slots in index   *)
(* order and invokes each widget's render.  generate_layout_samples.py     *)
(* drives them: set_widget for each widget, then one render.               *)
(***************************************************************************)
MaxSlots == 4

\* an unassigned slot
NoWidget == "none"

Widgets == {"clock", "gauge"}

\* the layout after construction: n slots, none assigned
LayoutInit(n) == [n |-> n, slots |-> [i \in 0..(n - 1) |-> NoWidget]]

\* the slot indices of a layout of n slots accepting every index Python's
\* list indexing accepts, negative ones included
SlotInRange_ListIndex(n, slot_index) == 0 - n <= slot_index /\ slot_index < n

\* set_widget: the slot indices of a layout of n slots, [0, n)
SlotInRange(n, slot_index) == 0 <= slot_index /\ slot_index < n

\* no set_widget and no render yet
NoLayoutOut ==
    [op |-> "none", slot_index |-> 0, widget |-> NoWidget, failed |-> FALSE,
     previous |-> NoWidget, calls |-> NoCalls]

\* the slots with the widget assigned only to a slot that has none
AssignSlot_KeepFirst(slots, slot_index, widget) ==
    IF slots[slot_index] = NoWidget
    THEN [slots EXCEPT ![slot_index] = widget]
    ELSE slots

\* set_widget: the slots with the widget in the slot, in the place of the
\* widget the slot had
AssignSlot(slots, slot_index, widget) == [slots EXCEPT ![slot_index] = widget]

\* set_widget: assigns the widget to the slot, or fails on an index that is
\* not a slot's and assigns nothing
SetWidget(slot_index, widget) ==
    LET ok == SlotInRange(slotLayout.n, slot_index)
    IN  /\ slotLayout' =
            IF ok
            THEN [slotLayout EXCEPT !.slots = AssignSlot(slotLayout.slots, slot_index, widget)]
            ELSE slotLayout
        /\ layoutOut' = [op |-> "set_widget", slot_index |-> slot_index,
                         widget |-> widget, failed |-> ~ok,
                         previous |-> IF slot_index \in DOMAIN slotLayout.slots
                                      THEN slotLayout.slots[slot_index]
                                      ELSE NoWidget,
                         calls |-> NoCalls]
        /\ UNCHANGED <<chart, chartCalls, chartArg, gauge, gaugeInit, gaugeArg, gaugeOut, barCalls, barArg, textVars, helperOut>>

\* the widget renders of the slots from, in index order, of every slot
RECURSIVE RenderSlots_EverySlot(_, _)
RenderSlots_EverySlot(l, from) ==
    IF from >= l.n
    THEN <<>>
    ELSE <<[op |-> "render", slot |-> from, widget |-> l.slots[from]]>>
         \o RenderSlots_EverySlot(l, from + 1)

\* render: the widget renders of the slots from, in index order; an unassigned
\* slot is skipped
RECURSIVE RenderSlots(_, _)
RenderSlots(l, from) ==
    IF from >= l.n
    THEN <<>>
    ELSE (IF l.slots[from] # NoWidget
          THEN <<[op |-> "render", slot |-> from, widget |-> l.slots[from]]>>
          ELSE <<>>)
         \o RenderSlots(l, from + 1)

\* render of the layout manager; the outcome keeps what the last set_widget
\* was called with
LayoutRender ==
    /\ layoutOut' = [layoutOut EXCEPT !.op = "render", !.calls = RenderSlots(slotLayout, 0)]
    /\ UNCHANGED <<slotLayout, chart, chartCalls, chartArg, gauge, gaugeInit, gaugeArg, gaugeOut, barCalls, barArg, textVars, helperOut>>

\* no layout manager in use
LayoutIdle == slotLayout = LayoutInit(0) /\ layoutOut = NoLayoutOut

(***************************************************************************)
(* TextWidget (widgets/text.py).  The state provider (hass) is absent or   *)
(* maps an entity id to its state; a state of the provider carries its     *)
(* value as a text.  An entity id that is None or empty is NoEntity.       *)
(***************************************************************************)
NoEntity == ""

EntityIds == {"sensor.a", "sensor.b"}

\* the provider holds no state for the entity
NoTextState == [present |-> FALSE, state |-> <<>>]

\* a state of the provider with the value text
TextState(text) == [present |-> TRUE, state |-> text]

\* hass = None: no provider is given
NoHass == [given |-> FALSE, states |-> [id \in EntityIds |-> NoTextState]]

\* a provider holding the states
Hass(states) == [given |-> TRUE, states |-> states]

\* TextWidget.__init__
TextWidgetInit(text, dynamic_entity_id, entity_id) ==
    [text |-> text, dynamic_entity_id |-> dynamic_entity_id, entity_id |-> entity_id]

\* the entity id with the widget configuration's entity_id first
EntityIdOf_ConfigFirst(w) ==
    IF w.entity_id # NoEntity THEN w.entity_id ELSE w.dynamic_entity_id

\* _get_text, line 78: self.dynamic_entity_id or self.config.entity_id
EntityIdOf(w) ==
    IF w.dynamic_entity_id # NoEntity THEN w.dynamic_entity_id ELSE w.entity_id

\* hass.states.get(entity_id): the state of the entity, absent when the
\* provider holds none
StatesGet(hass, entity_id) == hass.states[entity_id]

\* TextWidget._get_text
GetTextOf(w, hass) ==
    LET entity_id == EntityIdOf(w)
    IN  IF entity_id # NoEntity /\ hass.given
        THEN LET state == StatesGet(hass, entity_id)
             IN  IF state.present THEN state.state ELSE w.text
        ELSE w.text

\* no _get_text yet
NoTextOut == [called |-> FALSE, hass |-> NoHass, result |-> <<>>]

\* a call of TextWidget._get_text with the provider hass
GetText(hass) ==
    /\ textOut' = [called |-> TRUE, hass |-> hass, result |-> GetTextOf(textWidget, hass)]
    /\ UNCHANGED <<textWidget, chart, chartCalls, chartArg, gauge, gaugeInit, gaugeArg, gaugeOut, barCalls, barArg, layoutVars, helperOut>>

\* no text widget in use
TextIdle == textWidget = TextWidgetInit(<<>>, NoEntity, NoEntity) /\ textOut = NoTextOut

(***************************************************************************)
(* The layout helpers of widgets/layout_helpers.py that compute positions  *)
(* from percentages of the container: layout_list_rows, draw_title,        *)
(* layout_icon_label_value and layout_icon_centered_value.                 *)
(***************************************************************************)
MaxItems == 3

MaxSmallSize == 30

\* the products x * 0.pp that the float arithmetic leaves just below the
\* whole number they are exactly, for x below 500: 180 * 0.35 is
\* 62.99999999999999
FloatBelow == {<<180, 35>>, <<340, 35>>, <<360, 35>>}

\* int(x * 0.pp) for the percentage p
IntOfProduct(x, p) == PctInt(x, p) - (IF <<x, p>> \in FloatBelow THEN 1 ELSE 0)

\* no title: None, or the empty text
NoTitle == <<>>

\* layout_list_rows with one row more than there are items
LayoutListRows_ExtraRow(ctx, item_count, title) ==
    LET padding == IntOfProduct(ctx.width, 5)
        current_y == padding + (IF title # NoTitle THEN IntOfProduct(ctx.height, 15) ELSE 0)
        available_height == ctx.height - current_y - padding
        max_row_height == IntOfProduct(ctx.height, 35)
        row_height == Min2(max_row_height, available_height \div Max2(item_count, 1))
    IN  [i \in 1..(item_count + 1) |-> <<current_y + (i - 1) * row_height, row_height>>]

\* layout_list_rows with the default percentages: the <<y, height>> of each row
LayoutListRows(ctx, item_count, title) ==
    LET padding == IntOfProduct(ctx.width, 5)
        current_y == padding + (IF title # NoTitle THEN IntOfProduct(ctx.height, 15) ELSE 0)
        available_height == ctx.height - current_y - padding
        max_row_height == IntOfProduct(ctx.height, 35)
        row_height == Min2(max_row_height, available_height \div Max2(item_count, 1))
    IN  [i \in 1..item_count |-> <<current_y + (i - 1) * row_height, row_height>>]

\* the y after a title whose height is taken from the container's width
DrawTitleY_OfWidth(ctx) == IntOfProduct(ctx.width, 5) + IntOfProduct(ctx.width, 15)

\* draw_title, line 290: the y position after the title
DrawTitleY(ctx) == IntOfProduct(ctx.width, 5) + IntOfProduct(ctx.height, 15)

\* draw_title, line 288: the title text
DrawTitleCalls(ctx, title) ==
    LET padding == IntOfProduct(ctx.width, 5)
    IN  <<TextCall(Upper(title), padding, padding, "small", COLOR_GRAY, "lm")>>

\* layout_icon_label_value: the draw calls it issues, in order
LayoutIconLabelValue(ctx, icon, label, value, color) ==
    LET center_y == ctx.height \div 2
        padding == IntOfProduct(ctx.width, 5)
        icon_size == Max2(10, IntOfProduct(ctx.height, 35))
        text_x == IF icon # NoIcon THEN padding + icon_size + 4 ELSE padding
    IN  (IF icon # NoIcon
         THEN <<[op |-> "icon", icon |-> icon, x |-> padding,
                 y |-> center_y - icon_size \div 2, size |-> icon_size, color |-> color]>>
         ELSE <<>>)
        \o <<TextCall(label, text_x, center_y, "small", COLOR_GRAY, "lm"),
              TextCall(value, ctx.width - padding, center_y, "small", COLOR_WHITE, "rm")>>

\* layout_icon_centered_value: the draw calls it issues, in order
LayoutIconCenteredValue(ctx, icon, value, label, color, show_label) ==
    LET center_x == ctx.width \div 2
        icon_size == Max2(12, Min2(24, IntOfProduct(ctx.height, 25)))
        padding == IntOfProduct(ctx.height, 8)
    IN  <<[op |-> "icon", icon |-> icon, x |-> center_x - icon_size \div 2,
           y |-> padding, size |-> icon_size, color |-> color],
          TextCall(value, center_x, IntOfProduct(ctx.height, 55), "medium_bold",
                   COLOR_WHITE, "mm")>>
        \o (IF show_label /\ label # NoLabel
            THEN <<TextCall(Upper(label), center_x,
                            ctx.height - IntOfProduct(ctx.height, 12), "tiny",
                            COLOR_GRAY, "mm")>>
            ELSE <<>>)

\* no call of a layout helper yet
NoHelperOut ==
    [op |-> "none", ctx |-> NoCtx, item_count |-> 0, title |-> NoTitle,
     icon |-> NoIcon, rows |-> <<>>, y |-> 0, calls |-> NoCalls]

\* the helpers are called with the context of the widget: the container
\* the widget is rendered in
HelperIn(ctx) == [NoHelperOut EXCEPT !.ctx = ctx]

\* a call of layout_list_rows
ListRows(item_count, title) ==
    /\ helperOut' = [HelperIn(helperOut.ctx) EXCEPT
                         !.op = "layout_list_rows", !.item_count = item_count,
                         !.title = title,
                         !.rows = LayoutListRows(helperOut.ctx, item_count, title)]
    /\ UNCHANGED <<chart, chartCalls, chartArg, gauge, gaugeInit, gaugeArg, gaugeOut, barCalls, barArg, layoutVars, textVars>>

\* a call of draw_title
DrawTitle(title) ==
    /\ helperOut' = [HelperIn(helperOut.ctx) EXCEPT
                         !.op = "draw_title", !.title = title,
                         !.y = DrawTitleY(helperOut.ctx),
                         !.calls = DrawTitleCalls(helperOut.ctx, title)]
    /\ UNCHANGED <<chart, chartCalls, chartArg, gauge, gaugeInit, gaugeArg, gaugeOut, barCalls, barArg, layoutVars, textVars>>

\* a call of layout_icon_label_value
IconLabelValue(icon, label, value) ==
    /\ helperOut' = [HelperIn(helperOut.ctx) EXCEPT
                         !.op = "layout_icon_label_value", !.icon = icon,
                         !.calls = LayoutIconLabelValue(helperOut.ctx, icon, label, value, COLOR_CYAN)]
    /\ UNCHANGED <<chart, chartCalls, chartArg, gauge, gaugeInit, gaugeArg, gaugeOut, barCalls, barArg, layoutVars, textVars>>

\* a call of layout_icon_centered_value
IconCenteredValue(icon, value, label, show_label) ==
    /\ helperOut' = [HelperIn(helperOut.ctx) EXCEPT
                         !.op = "layout_icon_centered_value", !.icon = icon,
                         !.calls = LayoutIconCenteredValue(helperOut.ctx, icon, value, label, COLOR_CYAN, show_label)]
    /\ UNCHANGED <<chart, chartCalls, chartArg, gauge, gaugeInit, gaugeArg, gaugeOut, barCalls, barArg, layoutVars, textVars>>

\* no layout helper in use
HelpersIdle == helperOut = NoHelperOut

(***************************************************************************)
(* Configurations and specifications.                                      *)
(***************************************************************************)
ChartDefault == ChartWidgetInit(NoLabel, NoColor, TRUE, TRUE, FALSE)

Threshold(value, color) == [value |-> value, color |-> color]

\* the thresholds of the example: 0 red, 50 yellow, 80 green
ExampleThresholds ==
    <<Threshold(0, "red"), Threshold(Whole(50), "yellow"), Threshold(Whole(80), "green")>>

GaugeDefault ==
    GaugeWidgetInit(NoLabel, NoColor, "bar", 0, Whole(100), NoIcon, TRUE, NoUnit, "", <<>>)

Styles == {"bar", "ring", "arc", "dial"}

\* <<min, max>>: the default range, one around zero, a degenerate one and a
\* reversed one
Ranges == {<<0, Whole(100)>>, <<-Whole(50), Whole(50)>>, <<Whole(10), Whole(10)>>,
           <<Whole(100), 0>>}

\* <<label, icon, attribute>>
Decorations == {<<NoLabel, NoIcon, "">>, <<NoLabel, "cpu", "">>,
                <<<<"c", "p", "u">>, "cpu", "">>, <<<<"c", "p", "u">>, NoIcon, "temperature">>}

GaugeConfigs ==
    {GaugeWidgetInit(d[1], color, style, r[1], r[2], d[2], show_value, unit, d[3], th) :
        d \in Decorations, color \in {NoColor, "C"}, style \in Styles, r \in Ranges,
        show_value \in BOOLEAN, unit \in {NoUnit, <<"V">>},
        th \in {<<>>, ExampleThresholds}}

\* threshold entries: the example's, one without a colour and one that
\* repeats a value with another colour
ThresholdEntries ==
    {Threshold(0, "red"), Threshold(Whole(50), "yellow"), Threshold(Whole(80), "green"),
     Threshold(Whole(50), NoColor), Threshold(Whole(80), "red")}

ColorConfigs ==
    {GaugeWidgetInit(NoLabel, color, "ring", 0, Whole(100), NoIcon, TRUE, NoUnit, "", th) :
        color \in {NoColor, "C"}, th \in SeqsUpTo(ThresholdEntries, MaxThresholds)}

\* <<color, fill>>
ChartStyles == {<<NoColor, FALSE>>, <<"C", TRUE>>}

ChartConfigs ==
    {ChartWidgetInit(label, st[1], show_value, show_range, st[2]) :
        label \in ChartLabels, st \in ChartStyles,
        show_value \in BOOLEAN, show_range \in BOOLEAN}

InitChart ==
    /\ chart \in ChartConfigs
    /\ chartCalls = NoCalls
    /\ gauge = GaugeDefault
    /\ gaugeInit = GaugeDefault
    /\ gaugeArg = NoState
    /\ gaugeOut = NoComponent
    /\ barCalls = NoCalls
    /\ chartArg = NoChartArg
    /\ barArg = NoCtx
    /\ LayoutIdle
    /\ TextIdle
    /\ HelpersIdle

NextChart ==
    \/ \E data \in Histories : SetHistory(data)
    \/ \E ctx \in Contexts, state \in ChartStates : ChartRender(ctx, state)

SpecChart == InitChart /\ [][NextChart]_vars

InitGauge ==
    /\ chart = ChartDefault
    /\ chartCalls = NoCalls
    /\ gauge \in GaugeConfigs
    /\ gaugeInit = gauge
    /\ gaugeArg = NoState
    /\ gaugeOut = NoComponent
    /\ barCalls = NoCalls
    /\ chartArg = NoChartArg
    /\ barArg = NoCtx
    /\ LayoutIdle
    /\ TextIdle
    /\ HelpersIdle

NextGauge ==
    \/ \E state \in GaugeStates : GaugeRender(state)
    \/ \E ctx \in Contexts : DrawBarGauge(ctx)

SpecGauge == InitGauge /\ [][NextGauge]_vars

InitColor ==
    /\ chart = ChartDefault
    /\ chartCalls = NoCalls
    /\ gauge \in ColorConfigs
    /\ gaugeInit = gauge
    /\ gaugeArg = NoState
    /\ gaugeOut = NoComponent
    /\ barCalls = NoCalls
    /\ chartArg = NoChartArg
    /\ barArg = NoCtx
    /\ LayoutIdle
    /\ TextIdle
    /\ HelpersIdle

\* the states the colour is resolved for: every reading, and no reading
ColorStates == {NoState, NonNumeric(NoUnit)} \cup {Reading(v, NoUnit) : v \in Readings}

NextColor == \E state \in ColorStates : GaugeRender(state)

SpecColor == InitColor /\ [][NextColor]_vars

\* no chart and no gauge in use
WidgetsIdle ==
    /\ chart = ChartDefault
    /\ chartCalls = NoCalls
    /\ chartArg = NoChartArg
    /\ gauge = GaugeDefault
    /\ gaugeInit = GaugeDefault
    /\ gaugeArg = NoState
    /\ gaugeOut = NoComponent
    /\ barCalls = NoCalls
    /\ barArg = NoCtx
    /\ HelpersIdle

\* the slot indices set_widget is called with: every slot's, and some that
\* are no slot's on either side
SlotIndices == (0 - MaxSlots - 1)..(MaxSlots + 1)

InitLayout ==
    /\ WidgetsIdle
    /\ TextIdle
    /\ slotLayout \in {LayoutInit(n) : n \in 2..MaxSlots}
    /\ layoutOut = NoLayoutOut

NextLayout ==
    \/ \E slot_index \in SlotIndices, widget \in Widgets : SetWidget(slot_index, widget)
    \/ LayoutRender

SpecLayout == InitLayout /\ [][NextLayout]_vars

\* the values of the provider's states: a word, the empty text, and the text
\* an unavailable entity reports
StateTexts == {<<"o", "n">>, <<>>, <<"u", "n", "a", "v", "a", "i", "l", "a", "b", "l", "e">>}

Providers ==
    {NoHass} \cup {Hass(states) : states \in [EntityIds -> {NoTextState} \cup {TextState(t) : t \in StateTexts}]}

TextConfigs ==
    {TextWidgetInit(text, dynamic_entity_id, entity_id) :
        text \in {<<>>, <<"h", "i">>},
        dynamic_entity_id \in {NoEntity} \cup EntityIds,
        entity_id \in {NoEntity} \cup EntityIds}

InitText ==
    /\ WidgetsIdle
    /\ LayoutIdle
    /\ textWidget \in TextConfigs
    /\ textOut = NoTextOut

NextText == \E hass \in Providers : GetText(hass)

SpecText == InitText /\ [][NextText]_vars

\* the container widths and heights of the helpers: every small one, and the
\* sizes of the display's panels
HelperSizes == 0..MaxSmallSize \cup {60, 120, 180, 240}

HelperContexts == {[width |-> w, height |-> h] : w \in HelperSizes, h \in HelperSizes}

Titles == {NoTitle, <<"t", "o", "p">>}

InitHelpers ==
    /\ chart = ChartDefault
    /\ chartCalls = NoCalls
    /\ chartArg = NoChartArg
    /\ gauge = GaugeDefault
    /\ gaugeInit = GaugeDefault
    /\ gaugeArg = NoState
    /\ gaugeOut = NoComponent
    /\ barCalls = NoCalls
    /\ barArg = NoCtx
    /\ LayoutIdle
    /\ TextIdle
    /\ helperOut \in {HelperIn(ctx) : ctx \in HelperContexts}

NextHelpers ==
    \/ \E item_count \in 0..MaxItems, title \in Titles : ListRows(item_count, title)
    \/ \E title \in Titles \ {NoTitle} : DrawTitle(title)
    \/ \E icon \in {NoIcon, "cpu"} : IconLabelValue(icon, <<"c", "p", "u">>, <<"4", "2">>)
    \/ \E show_label \in BOOLEAN :
           IconCenteredValue("cpu", <<"4", "2">>, <<"c", "p", "u">>, show_label)

SpecHelpers == InitHelpers /\ [][NextHelpers]_vars

(***************************************************************************)
(* Properties of ChartWidget.render, checked under SpecChart.              *)
(***************************************************************************)
\* some call of calls is the operation op
Calls(calls, op) == \E i \in 1..Len(calls) : calls[i].op = op

\* some call of calls draws the "No data" placeholder text
DrawsNoData(calls) ==
    \E i \in 1..Len(calls) : calls[i].op = "text" /\ calls[i].text = NoDataText

\* the chart has been rendered with the history it holds now
ChartRendered == chartCalls # NoCalls

NonBinary(v) == v \notin {0, Whole(1)}

\* C1: with a history of length 0 or 1, whatever its content, render draws
\* the "No data" text and calls neither draw_sparkline nor draw_timeline_bar.
C1_ShortHistoryIsNoData ==
    (ChartRendered /\ Len(chart.history_data) < 2)
        => /\ DrawsNoData(chartCalls)
           /\ ~Calls(chartCalls, "sparkline")
           /\ ~Calls(chartCalls, "timeline_bar")

C1_Witness ==
    /\ ChartRendered
    /\ Len(chart.history_data) = 1
    /\ chart.history_data[1] = Whole(1)
    /\ DrawsNoData(chartCalls)

\* C2: with a history of length >= 2 whose samples are all 0.0 or 1.0, render
\* calls draw_timeline_bar with the history and does not call draw_sparkline.
C2_BinaryHistoryIsTimeline ==
    (/\ ChartRendered
     /\ Len(chart.history_data) >= 2
     /\ \A i \in 1..Len(chart.history_data) : ~NonBinary(chart.history_data[i]))
        => /\ \E i \in 1..Len(chartCalls) :
                /\ chartCalls[i].op = "timeline_bar"
                /\ chartCalls[i].data = chart.history_data
           /\ ~Calls(chartCalls, "sparkline")

C2_Witness ==
    /\ ChartRendered
    /\ chart.history_data = <<0, Whole(1), 0>>
    /\ Calls(chartCalls, "timeline_bar")

\* C3 as claimed: a history with a sample that is neither 0.0 nor 1.0 is
\* rendered as a sparkline, never as a timeline bar, for every length.
C3_NonBinaryIsSparklineAnyLength ==
    (/\ ChartRendered
     /\ \E i \in 1..Len(chart.history_data) : NonBinary(chart.history_data[i]))
        => /\ Calls(chartCalls, "sparkline")
           /\ ~Calls(chartCalls, "timeline_bar")

\* C3 as amended: a history of length >= 2 with a sample that is neither 0.0
\* nor 1.0 is rendered as a sparkline of that history, never as a timeline bar.
C3_NonBinaryIsSparkline ==
    (/\ ChartRendered
     /\ Len(chart.history_data) >= 2
     /\ \E i \in 1..Len(chart.history_data) : NonBinary(chart.history_data[i]))
        => /\ \E i \in 1..Len(chartCalls) :
                /\ chartCalls[i].op = "sparkline"
                /\ chartCalls[i].data = chart.history_data
           /\ ~Calls(chartCalls, "timeline_bar")

C3_Witness ==
    /\ ChartRendered
    /\ chart.history_data = <<0, Whole(1) + 1>>
    /\ Calls(chartCalls, "sparkline")

(***************************************************************************)
(* Properties of GaugeWidget, checked under SpecColor (C4) and SpecGauge.  *)
(***************************************************************************)
\* the gauge has been rendered: gaugeOut is the Component of its last
\* render and gaugeArg the entity state that render saw
GaugeRendered == gaugeOut.kind # "none"

\* the number the last render extracted from its entity state
RenderedValue == ExtractNumeric(gaugeArg, gaugeInit.attribute)

\* the last render had a reading: a state whose value (or configured
\* attribute) is a number
HadReading ==
    /\ gaugeArg.present
    /\ IF gaugeInit.attribute # "" THEN gaugeArg.attr_numeric ELSE gaugeArg.numeric

\* the indices of the thresholds that carry a colour and lie at or below v
AtOrBelow(thresholds, v) ==
    {i \in 1..Len(thresholds) : thresholds[i].value <= v /\ thresholds[i].color # NoColor}

\* C4: the resolved colour is the colour of the threshold with the greatest
\* value <= the current value (the last configured of them when two carry
\* that value); with no threshold at or below the value it is the accent
\* colour if one is configured, else the default.  With 0 red, 50 yellow,
\* 80 green: 65 gives yellow, 10 red, 95 green.
C4_ThresholdColor ==
    GaugeRendered =>
        LET th == gaugeInit.color_thresholds
            below == AtOrBelow(th, RenderedValue)
        IN  /\ below = {} =>
                gaugeOut.color = (IF gaugeInit.color # NoColor THEN gaugeInit.color
                                  ELSE COLOR_CYAN)
            /\ below # {} =>
                \E i \in below :
                    /\ \A j \in below : th[j].value <= th[i].value
                    /\ \A j \in below : th[j].value = th[i].value => j <= i
                    /\ gaugeOut.color = th[i].color
            /\ th = ExampleThresholds =>
                /\ RenderedValue = Whole(65) => gaugeOut.color = "yellow"
                /\ RenderedValue = Whole(10) => gaugeOut.color = "red"
                /\ RenderedValue = Whole(95) => gaugeOut.color = "green"

C4_Witness ==
    /\ GaugeRendered
    /\ gaugeInit.color_thresholds = ExampleThresholds
    /\ gaugeArg.numeric /\ gaugeArg.value = Whole(65)
    /\ gaugeOut.color = "yellow"

\* C5: the percent of the Component is within [0, 100]; it is
\* clamp((value - min) / (max - min) * 100, 0, 100) when max # min and 0 when
\* max = min.
C5_PercentClamped ==
    GaugeRendered =>
        LET p == gaugeOut.percent
            lo == gaugeInit.min_value
            hi == gaugeInit.max_value
            \* (value - min) / (max - min) * 100 as num / den with den > 0
            num == IF hi > lo THEN (RenderedValue - lo) * 100 ELSE (lo - RenderedValue) * 100
            den == Abs(hi - lo)
        IN  /\ p[2] > 0
            /\ 0 <= p[1] /\ p[1] <= 100 * p[2]
            /\ hi = lo => p[1] = 0
            /\ hi # lo =>
                /\ num <= 0 => p[1] = 0
                /\ num >= 100 * den => p[1] = 100 * p[2]
                /\ (0 < num /\ num < 100 * den) => p[1] * den = num * p[2]

C5_Witness ==
    /\ GaugeRendered
    /\ gaugeInit.max_value = gaugeInit.min_value
    /\ HadReading
    /\ RenderedValue # gaugeInit.min_value
    /\ gaugeOut.percent[1] = 0

\* the unit a render resolves from the configuration and its own entity
\* state: the configured unit, else the state's unit, else none
ResolvedUnit == IF gaugeInit.unit # NoUnit THEN gaugeInit.unit
                ELSE IF gaugeArg.present THEN gaugeArg.unit ELSE NoUnit

\* C6: with no state for the entity, the value text is "--" followed by the
\* configured unit and the percent is 0, for every range.
C6_MissingStatePlaceholder ==
    (GaugeRendered /\ ~gaugeArg.present) =>
        /\ gaugeInit.show_value => gaugeOut.value = Placeholder \o gaugeInit.unit
        /\ gaugeOut.percent[1] = 0

\* C7: with a state whose value is not a number, the value text is the "--"
\* placeholder, as it is for a missing state.
C7_NonNumericIsPlaceholder ==
    (GaugeRendered /\ gaugeArg.present /\ ~HadReading /\ gaugeInit.show_value) =>
        gaugeOut.value = Placeholder \o ResolvedUnit

\* C8: render leaves every field of the widget as __init__ set it, and the
\* unit of the value text is resolved from the configuration and the entity
\* state of that render alone.
C8_RenderKeepsFields ==
    /\ gauge = gaugeInit
    /\ (GaugeRendered /\ gaugeInit.show_value) =>
            gaugeOut.value =
                (IF gaugeArg.present THEN FormatNoDecimal(RenderedValue) ELSE Placeholder)
                    \o ResolvedUnit

\* C9: with a reading, the value text is the value rounded to an integer
\* followed by the configured unit, else by the state's unit, else by
\* nothing; it is empty when show_value is off.
C9_ValueText ==
    (GaugeRendered /\ HadReading) =>
        gaugeOut.value = (IF gaugeInit.show_value
                          THEN FormatNoDecimal(RenderedValue) \o ResolvedUnit
                          ELSE <<>>)

(***************************************************************************)
(* Properties of the bar gauge, checked under SpecGauge.                   *)
(***************************************************************************)
\* the Component of the last render has been drawn by layout_bar_with_label
BarDrawn == barCalls # NoCalls

\* the draw_bar calls among the calls of the last layout_bar_with_label
BarIndices == {i \in 1..Len(barCalls) : barCalls[i].op = "bar"}

\* percentages between 0 and 100 to compare a drawn one with
ProbePercents == {<<n, d>> : n \in {0, 1, 33, 42, 50, 99, 100, 125, 199, 200}, d \in {1, 2}}
                    \ {<<125, 1>>, <<199, 1>>, <<200, 1>>}

\* C10: the bar is drawn with the percent and colour of the gauge pipeline,
\* unchanged; its fill width percent / 100 * track width is 0 at 0, the
\* track's width at 100, and no smaller for a larger percent.  A gauge with
\* min 0, max 100, value 42, no thresholds and accent colour C fills 42% of
\* the track, rounded down to whole pixels, in colour C.
C10_BarFill ==
    BarDrawn =>
        /\ Cardinality(BarIndices) = 1
        /\ \A i \in BarIndices :
            LET call == barCalls[i]
                track == call.rect[3] - call.rect[1]
                fill == BarFillWidth(call.rect, call.percent)
            IN  /\ call.percent = gaugeOut.percent
                /\ call.color = gaugeOut.color
                /\ track >= 0
                /\ 0 <= fill /\ fill <= track
                /\ PctEq(call.percent, <<0, 1>>) => fill = 0
                /\ PctEq(call.percent, <<100, 1>>) => fill = track
                /\ \A q \in ProbePercents :
                    /\ PctLeq(q, call.percent) => BarFillWidth(call.rect, q) <= fill
                    /\ PctLeq(call.percent, q) => fill <= BarFillWidth(call.rect, q)
                /\ (/\ gaugeInit.min_value = 0
                    /\ gaugeInit.max_value = Whole(100)
                    /\ gaugeInit.color_thresholds = <<>>
                    /\ gaugeInit.color = "C"
                    /\ HadReading
                    /\ RenderedValue = Whole(42))
                        => /\ fill = (42 * track) \div 100
                           /\ call.color = "C"

C10_Witness ==
    /\ BarDrawn
    /\ gaugeInit.min_value = 0
    /\ gaugeInit.max_value = Whole(100)
    /\ gaugeInit.color_thresholds = <<>>
    /\ gaugeInit.color = "C"
    /\ gaugeArg = Reading(Whole(42), <<"%">>)
    /\ gaugeInit.attribute = ""
    /\ \E i \in BarIndices :
        /\ barCalls[i].rect[3] - barCalls[i].rect[1] = 216
        /\ BarFillWidth(barCalls[i].rect, barCalls[i].percent) = 90

(***************************************************************************)
(* Properties of the slot layout managers, checked under SpecLayout.       *)
(***************************************************************************)
\* the slots of the layout that have a widget
AssignedSlots == {i \in 0..(slotLayout.n - 1) : slotLayout.slots[i] # NoWidget}

\* C11: set_widget fails exactly when slot_index is outside [0, N); a failed
\* call leaves every slot assignment as it was, and a call with an index in
\* [0, N) succeeds and assigns the widget to that slot and to no other.
C11_SetWidgetRange ==
    [][layoutOut'.op = "set_widget" =>
        /\ layoutOut'.failed <=>
               (layoutOut'.slot_index < 0 \/ layoutOut'.slot_index >= slotLayout.n)
        /\ slotLayout'.n = slotLayout.n
        /\ layoutOut'.failed => slotLayout' = slotLayout
        /\ ~layoutOut'.failed =>
               \A i \in 0..(slotLayout.n - 1) :
                   slotLayout'.slots[i] = IF i = layoutOut'.slot_index
                                          THEN layoutOut'.widget
                                          ELSE slotLayout.slots[i]]_vars

\* a set_widget with an index that is no slot's has failed on a layout that
\* has widgets assigned
C11_Witness ==
    /\ layoutOut.op = "set_widget"
    /\ layoutOut.failed
    /\ layoutOut.slot_index = slotLayout.n
    /\ AssignedSlots # {}

\* C12: render of a layout invokes the render of each assigned widget exactly
\* once, in ascending slot order, and invokes nothing for an unassigned slot.
C12_RenderAssignedInOrder ==
    layoutOut.op = "render" =>
        LET calls == layoutOut.calls
        IN  /\ \A k \in 1..Len(calls) :
                   /\ calls[k].slot \in AssignedSlots
                   /\ calls[k].widget = slotLayout.slots[calls[k].slot]
            /\ \A j \in 1..Len(calls), k \in 1..Len(calls) :
                   j < k => calls[j].slot < calls[k].slot
            /\ \A i \in AssignedSlots : \E k \in 1..Len(calls) : calls[k].slot = i

\* a layout with an unassigned slot between two assigned ones is rendered
C12_Witness ==
    /\ layoutOut.op = "render"
    /\ slotLayout.n >= 3
    /\ slotLayout.slots[0] # NoWidget
    /\ slotLayout.slots[1] = NoWidget
    /\ slotLayout.slots[2] # NoWidget
    /\ Len(layoutOut.calls) = 2

\* the widget renders of the last layout render for the slot
RendersOfSlot(i) == SelectSeq(layoutOut.calls, LAMBDA c : c.slot = i)

\* C21: every slot holds at most one widget: a set_widget on an assigned slot
\* puts the new widget in the place of the earlier one, and a render after it
\* invokes for every slot at most one widget, for the slot last assigned the
\* widget last assigned to it and not the earlier one.
C21_AssignmentReplaces ==
    /\ (layoutOut.op # "none" /\ ~layoutOut.failed) =>
           slotLayout.slots[layoutOut.slot_index] = layoutOut.widget
    /\ layoutOut.op = "render" =>
           /\ \A i \in 0..(slotLayout.n - 1) : Len(RendersOfSlot(i)) <= 1
           /\ (layoutOut.widget # NoWidget /\ ~layoutOut.failed) =>
                  /\ Len(RendersOfSlot(layoutOut.slot_index)) = 1
                  /\ RendersOfSlot(layoutOut.slot_index)[1].widget = layoutOut.widget

\* a slot that held one widget was assigned another, and the layout was
\* rendered
C21_Witness ==
    /\ layoutOut.op = "render"
    /\ ~layoutOut.failed
    /\ layoutOut.previous = "clock"
    /\ layoutOut.widget = "gauge"
    /\ Len(layoutOut.calls) >= 2

(***************************************************************************)
(* Properties of layout_bar_with_label's regions, checked under SpecGauge. *)
(***************************************************************************)
\* the solver's result for the bar gauge last drawn
BarLayout == LayoutBarGauge(barArg, gaugeOut.value, gaugeOut.label, gaugeOut.icon # NoIcon)

\* the text calls of the last layout_bar_with_label in the font
BarTexts(font) == SelectSeq(barCalls, LAMBDA c : c.op = "text" /\ c.font = font)

\* C13: when the solver chose the vertical arrangement layout_bar_with_label
\* calls draw_icon not at all, also with an icon configured; an icon is drawn
\* only in the horizontal arrangement.
C13_NoIconInVertical ==
    BarDrawn =>
        /\ BarLayout.use_vertical => ~Calls(barCalls, "icon")
        /\ Calls(barCalls, "icon") => ~BarLayout.use_vertical

\* a bar gauge with an icon configured is drawn in the vertical arrangement
C13_Witness ==
    /\ BarDrawn
    /\ BarLayout.use_vertical
    /\ gaugeOut.icon # NoIcon

\* C20: layout_bar_with_label draws the value, the bar, the label and the icon
\* each only if the solver's result has that region, the label only if the
\* label text is not empty and the icon only if one is configured.
C20_RegionsCheckedBeforeDrawing ==
    BarDrawn =>
        /\ BarTexts("medium_bold") # <<>> => "value" \in DOMAIN BarLayout.boxes
        /\ Calls(barCalls, "bar") => "bar" \in DOMAIN BarLayout.boxes
        /\ BarTexts("tiny") # <<>> =>
               "label" \in DOMAIN BarLayout.boxes /\ gaugeOut.label # NoLabel
        /\ Calls(barCalls, "icon") =>
               "icon" \in DOMAIN BarLayout.boxes /\ gaugeOut.icon # NoIcon

\* a bar gauge without a label text and without an icon is drawn: the value
\* and the bar are the only draw calls
C20_Witness ==
    /\ BarDrawn
    /\ gaugeOut.label = NoLabel
    /\ gaugeOut.icon = NoIcon
    /\ DOMAIN BarLayout.boxes = {"value", "bar"}
    /\ Len(barCalls) = 2

(***************************************************************************)
(* Properties of TextWidget._get_text, checked under SpecText.             *)
(***************************************************************************)
\* the entity id the widget reads: the options' entity_id when there is one,
\* else the widget configuration's
PreferredEntity ==
    IF textWidget.dynamic_entity_id \in EntityIds
    THEN textWidget.dynamic_entity_id
    ELSE textWidget.entity_id

\* the provider of the last _get_text was given and holds a state for the
\* entity the widget reads
ProviderHoldsState ==
    /\ PreferredEntity \in EntityIds
    /\ textOut.hass.given
    /\ textOut.hass.states[PreferredEntity].present

\* C15: _get_text returns the value of the state when an entity id is
\* available (the options' entity_id before the widget configuration's), a
\* provider is given and it holds a state for that id, and the configured
\* static text in every other case.
C15_GetTextNeverFails ==
    textOut.called =>
        textOut.result = IF ProviderHoldsState
                         THEN textOut.hass.states[PreferredEntity].state
                         ELSE textWidget.text

\* the options name an entity the provider holds no state for while it holds
\* one for the entity of the widget configuration: the static text is returned
C15_Witness ==
    /\ textOut.called
    /\ textWidget.dynamic_entity_id = "sensor.a"
    /\ textWidget.entity_id = "sensor.b"
    /\ textOut.hass.given
    /\ ~textOut.hass.states["sensor.a"].present
    /\ textOut.hass.states["sensor.b"].present
    /\ textOut.hass.states["sensor.b"].state # textWidget.text
    /\ textOut.result = textWidget.text

(***************************************************************************)
(* Properties of the chart's header and footer, checked under SpecChart.   *)
(***************************************************************************)
\* the bottom edge of the chart area of the last render: the footer row lies
\* at or below it, the header row and the chart body above it
RenderedChartBottom ==
    chartArg.ctx.height - (IF chart.show_range THEN PctInt(chartArg.ctx.height, 12)
                           ELSE PctInt(chartArg.ctx.height, 4))

\* the text calls of the last render in the footer row
FooterTexts ==
    SelectSeq(chartCalls, LAMBDA c : c.op = "text" /\ c.text # NoDataText
                                     /\ c.y >= RenderedChartBottom)

\* every sample of the history is 0.0 or 1.0
AllBinary == \A i \in 1..Len(chart.history_data) : ~NonBinary(chart.history_data[i])

\* C16: the min/max labels of the footer are drawn if and only if the history
\* has at least 2 samples, is not all-binary and show_range is true: the
\* minimum at the left and the maximum at the right, below the sparkline.  With
\* a timeline bar or the "No data" placeholder there is none, whatever
\* show_range is.
C16_FooterOnlyForSparkline ==
    ChartRendered =>
        /\ FooterTexts # <<>> <=>
               (Len(chart.history_data) >= 2 /\ ~AllBinary /\ chart.show_range)
        /\ FooterTexts # <<>> =>
               /\ Calls(chartCalls, "sparkline")
               /\ Len(FooterTexts) = 2
               /\ FooterTexts[1].text = FormatOneDecimal(SeqMin(chart.history_data))
               /\ FooterTexts[2].text = FormatOneDecimal(SeqMax(chart.history_data))
        /\ Calls(chartCalls, "timeline_bar") \/ DrawsNoData(chartCalls) => FooterTexts = <<>>

\* a chart with show_range on draws a timeline bar and no footer label
C16_Witness ==
    /\ ChartRendered
    /\ chart.show_range
    /\ Calls(chartCalls, "timeline_bar")
    /\ FooterTexts = <<>>

\* the text calls of the last render that show the current value
ValueTexts == SelectSeq(chartCalls, LAMBDA c : c.op = "text" /\ c.font = "regular")

\* C17: rendered with a state that is present and not numeric, the chart draws
\* no current-value text, and everything it draws, the chart body included,
\* is what it draws for a missing state with the same history.
C17_NonNumericAsMissing ==
    (ChartRendered /\ chartArg.state.present /\ ~chartArg.state.numeric) =>
        /\ ValueTexts = <<>>
        /\ chartCalls = ChartRenderCalls(chart, chartArg.ctx, NoState)

\* a chart that shows the value is rendered with a non-numeric state over a
\* history it draws as a sparkline
C17_Witness ==
    /\ ChartRendered
    /\ chartArg.state.present
    /\ ~chartArg.state.numeric
    /\ chart.show_value
    /\ Calls(chartCalls, "sparkline")

\* the limit of the header label's length in the context of the last render
LabelLimit == Max2(3, chartArg.ctx.width \div 12)

\* the header label as the last render of a chart with a label displayed it
DisplayedLabel == chartCalls[1].text

\* C18: the displayed header label has at most max(3, width // 12) characters;
\* a label that fits is displayed upper-cased and otherwise unchanged, and a
\* longer one is cut to a prefix followed by the ".." marker.
C18_LabelTruncated ==
    (ChartRendered /\ chart.label # NoLabel) =>
        /\ chartCalls[1].op = "text"
        /\ Len(DisplayedLabel) <= LabelLimit
        /\ Len(chart.label) <= LabelLimit => DisplayedLabel = Upper(chart.label)
        /\ Len(chart.label) > LabelLimit =>
               /\ Len(DisplayedLabel) = LabelLimit
               /\ SubSeq(DisplayedLabel, LabelLimit - 1, LabelLimit) = <<".", ".">>
               /\ SubSeq(DisplayedLabel, 1, LabelLimit - 2)
                      = SubSeq(Upper(chart.label), 1, LabelLimit - 2)

\* a label longer than the limit of a narrow context is displayed truncated
C18_Witness ==
    /\ ChartRendered
    /\ chart.label # NoLabel
    /\ Len(chart.label) > LabelLimit
    /\ LabelLimit = 3
    /\ DisplayedLabel = <<"T", ".", ".">>

(***************************************************************************)
(* Properties of the gauge's presentation variants, checked under          *)
(* SpecGauge.                                                              *)
(***************************************************************************)
\* the Component render returns for the state and the unit of the last
\* render when the widget's style is style
ComponentOfStyle(style) ==
    LET w == [gauge EXCEPT !.style = style]
    IN  RenderComponent(w, RenderPercent(w, RenderedValue),
                        RenderValueText(w, gaugeArg, RenderedValue, gauge.unit),
                        ResolveLabel(w.label, gaugeArg), ResolveColor(w, RenderedValue))

\* the gauge component of a style: the ring for "ring", the arc for "arc", the
\* bar for every other style
KindOfStyle(style) ==
    IF style = "ring" THEN "RingGauge" ELSE IF style = "arc" THEN "ArcGauge" ELSE "BarGauge"

\* C19: for the same state and configuration every style gets the percent,
\* value text, label and colour the rendered one got; "ring" gives a
\* RingGauge, "arc" an ArcGauge and every other style a BarGauge, and the
\* BarGauge alone carries an icon, the configured one.
C19_VariantsShareThePipeline ==
    GaugeRendered =>
        /\ gaugeOut.kind = KindOfStyle(gaugeInit.style)
        /\ "icon" \in DOMAIN gaugeOut <=> gaugeOut.kind = "BarGauge"
        /\ gaugeOut.kind = "BarGauge" => gaugeOut.icon = gaugeInit.icon
        /\ \A style \in Styles :
               LET c == ComponentOfStyle(style)
               IN  /\ c.kind = KindOfStyle(style)
                   /\ c.percent = gaugeOut.percent
                   /\ c.value = gaugeOut.value
                   /\ c.label = gaugeOut.label
                   /\ c.color = gaugeOut.color

\* a gauge of a style that is none of the three, with an icon and a reading,
\* is rendered as a BarGauge with the icon
C19_Witness ==
    /\ GaugeRendered
    /\ gaugeInit.style = "dial"
    /\ gaugeOut.kind = "BarGauge"
    /\ gaugeOut.icon = "cpu"
    /\ HadReading

(***************************************************************************)
(* Properties of the chart's history buffer and of the chart body, checked *)
(* under SpecChart.                                                        *)
(***************************************************************************)
\* the chart has been rendered since its history was last set
ChartRenderDone == chartArg.ctx # NoCtx

\* the calls among calls that draw a chart body: a timeline bar, a sparkline
\* or the "No data" placeholder
BodyCalls(calls) ==
    SelectSeq(calls, LAMBDA c : \/ c.op \in {"timeline_bar", "sparkline"}
                                \/ (c.op = "text" /\ c.text = NoDataText))

\* C22: a render draws from the buffer handed to the most recent set_history,
\* the empty buffer before the first, and leaves the widget's buffer as it
\* was: the same samples in the same order.
C22_RenderReadsLastHistory ==
    [][chartArg'.ctx # NoCtx =>
        /\ chart.history_data = chartArg.history
        /\ chart'.history_data = chart.history_data
        /\ chartArg'.history = chartArg.history
        /\ \A i \in 1..Len(chartCalls') :
               chartCalls'[i].op \in {"timeline_bar", "sparkline"} =>
                   chartCalls'[i].data = chartArg.history
        /\ DrawsNoData(chartCalls') <=> Len(chartArg.history) < 2]_vars

\* a chart whose history was set to three samples has been rendered from them
C22_Witness ==
    /\ ChartRenderDone
    /\ Len(chartArg.history) = 3
    /\ chart.history_data = chartArg.history
    /\ \E i \in 1..Len(chartCalls) :
           chartCalls[i].op = "sparkline" /\ chartCalls[i].data = chartArg.history

\* C23: every render issues exactly one chart-body outcome: one timeline bar,
\* one sparkline or one "No data" placeholder text, never two and never none.
C23_OneBodyOutcome ==
    ChartRenderDone => Len(BodyCalls(chartCalls)) = 1

\* a chart with a header label and a value text draws a timeline bar as its
\* one body
C23_Witness ==
    /\ ChartRenderDone
    /\ Len(chartCalls) = 3
    /\ Calls(chartCalls, "timeline_bar")
    /\ Len(BodyCalls(chartCalls)) = 1

\* the texts of the header row of the last render: the header label and the
\* current value
HeaderTexts ==
    SelectSeq(chartCalls, LAMBDA c : c.op = "text" /\ c.text # NoDataText
                                     /\ c.y < RenderedChartBottom)

\* the chart rectangles of the last render: <<left, top, right, bottom>>
ChartRects ==
    {chartCalls[i].rect : i \in {j \in 1..Len(chartCalls) :
                                    chartCalls[j].op \in {"timeline_bar", "sparkline"}}}

\* C24: the vertical bands of the chart are ordered and do not overlap: every
\* text of the header row lies strictly above the chart rectangle,
\* 0 <= header text y < chart_top <= chart_bottom <= height, and the chart
\* rectangle has no negative width.
C24_BandsOrdered ==
    ChartRenderDone =>
        \A rect \in ChartRects :
            /\ rect[1] <= rect[3]
            /\ rect[2] <= rect[4]
            /\ rect[4] <= chartArg.ctx.height
            /\ \A i \in 1..Len(HeaderTexts) :
                   0 <= HeaderTexts[i].y /\ HeaderTexts[i].y < rect[2]

(***************************************************************************)
(* Properties of the threshold colour's independence of the configured     *)
(* order, checked under SpecColor.                                         *)
(***************************************************************************)
\* the permutations of 1..n
Orders(n) ==
    {f \in [1..n -> 1..n] : \A i \in 1..n, j \in 1..n : f[i] = f[j] => i = j}

\* the thresholds in the order f
Permuted(thresholds, f) == [i \in 1..Len(thresholds) |-> thresholds[f[i]]]

\* no two thresholds have the same value
DistinctValues(thresholds) ==
    \A i \in 1..Len(thresholds), j \in 1..Len(thresholds) :
        thresholds[i].value = thresholds[j].value => i = j

\* the thresholds that have a colour
Coloured(thresholds) == SelectSeq(thresholds, LAMBDA t : t.color # NoColor)

\* the colour of the gauge for the value of the last render had its
\* thresholds been thresholds
ColorWith(thresholds) ==
    ResolveColor([gaugeInit EXCEPT !.color_thresholds = thresholds], RenderedValue)

\* C25: with pairwise distinct threshold values every order of the configured
\* thresholds resolves to the same colour; a threshold without a colour is
\* never the one selected and never takes the colour of a lower matching
\* threshold away: the colour is the one resolved without such entries.
C25_ThresholdOrderIrrelevant ==
    GaugeRendered =>
        LET th == gaugeInit.color_thresholds
        IN  /\ DistinctValues(th) =>
                   \A f \in Orders(Len(th)) : ColorWith(Permuted(th, f)) = gaugeOut.color
            /\ ColorWith(Coloured(th)) = gaugeOut.color
            /\ gaugeOut.color # NoColor

\* thresholds configured in descending order, with one without a colour
\* between the value and the threshold that matches it
C25_Witness ==
    /\ GaugeRendered
    /\ gaugeInit.color_thresholds
           = <<Threshold(Whole(80), "green"), Threshold(Whole(50), NoColor),
               Threshold(0, "red")>>
    /\ RenderedValue = Whole(65)
    /\ gaugeOut.color = "red"

(***************************************************************************)
(* Properties of the layout helpers, checked under SpecHelpers.            *)
(***************************************************************************)
\* the rows of the last layout_list_rows
ListRowsDone == helperOut.op = "layout_list_rows"

\* the padding of the helpers: int(width * 0.05)
HelperPadding == IntOfProduct(helperOut.ctx.width, 5)

\* C26: layout_list_rows returns no negative geometry: every row height is
\* >= 0 and <= int(height * 0.35), for every container width and height
\* >= 0, every item_count >= 0 and with or without a title.
C26_RowHeightsInRange ==
    ListRowsDone =>
        \A i \in 1..Len(helperOut.rows) :
            /\ helperOut.rows[i][2] >= 0
            /\ helperOut.rows[i][2] <= IntOfProduct(helperOut.ctx.height, 35)

\* C27: layout_list_rows returns exactly item_count rows, none for
\* item_count = 0; row i+1 starts at row i's y plus the row height, which is
\* the same for all rows; the first row starts at the padding, plus the title
\* height when a title is given; and the bottom of the last row is not below
\* height - padding.
C27_RowsContiguous ==
    ListRowsDone =>
        LET rows == helperOut.rows
            n == helperOut.item_count
        IN  /\ Len(rows) = n
            /\ \A i \in 1..(Len(rows) - 1) :
                   /\ rows[i + 1][1] = rows[i][1] + rows[i][2]
                   /\ rows[i + 1][2] = rows[i][2]
            /\ n > 0 =>
                   /\ rows[1][1] = HelperPadding
                          + (IF helperOut.title # NoTitle
                             THEN IntOfProduct(helperOut.ctx.height, 15) ELSE 0)
                   /\ rows[n][1] + rows[n][2] <= helperOut.ctx.height - HelperPadding

\* three rows under a title in the full 240x240 display: rows of 60 pixels
\* from y = 48
C27_Witness ==
    /\ ListRowsDone
    /\ helperOut.ctx = [width |-> 240, height |-> 240]
    /\ helperOut.title # NoTitle
    /\ helperOut.rows = <<<<48, 60>>, <<108, 60>>, <<168, 60>>>>

\* C28: the y position draw_title returns is the y of the first row
\* layout_list_rows returns for the same container when a title is given, for
\* every number of rows.
C28_TitleAgreesWithRows ==
    helperOut.op = "draw_title" =>
        \A n \in 1..MaxItems :
            LayoutListRows(helperOut.ctx, n, helperOut.title)[1][1] = helperOut.y

\* a title drawn in a container wider than high: content starts at 12 + 9
C28_Witness ==
    /\ helperOut.op = "draw_title"
    /\ helperOut.ctx = [width |-> 240, height |-> 60]
    /\ helperOut.title # NoTitle
    /\ helperOut.y = 21

\* the text calls of the last helper call with the anchor
HelperTexts(anchor) ==
    SelectSeq(helperOut.calls, LAMBDA c : c.op = "text" /\ c.anchor = anchor)

\* C29: layout_icon_label_value keeps the label left of the value inside the
\* container: the label's left anchor x is <= the value's right anchor x and
\* lies within [0, width], with and without an icon.
C29_LabelLeftOfValue ==
    helperOut.op = "layout_icon_label_value" =>
        LET label_x == HelperTexts("lm")[1].x
            value_x == HelperTexts("rm")[1].x
        IN  /\ value_x = helperOut.ctx.width - HelperPadding
            /\ label_x <= value_x
            /\ 0 <= label_x /\ label_x <= helperOut.ctx.width

\* the icon calls of the last helper call
HelperIcons == SelectSeq(helperOut.calls, LAMBDA c : c.op = "icon")

\* C30: layout_icon_centered_value stacks icon, value and label from top to
\* bottom without crossing, for every container height >= 1: the icon size is
\* within [12, 24], the icon's bottom edge is <= the value's centre y, and
\* the value's centre y is <= the label's centre y.
C30_IconValueLabelStacked ==
    (helperOut.op = "layout_icon_centered_value" /\ helperOut.ctx.height >= 1) =>
        LET icon == HelperIcons[1]
            value == SelectSeq(helperOut.calls, LAMBDA c : c.op = "text" /\ c.font = "medium_bold")[1]
            labels == SelectSeq(helperOut.calls, LAMBDA c : c.op = "text" /\ c.font = "tiny")
        IN  /\ icon.size >= 12 /\ icon.size <= 24
            /\ icon.y + icon.size <= value.y
            /\ \A i \in 1..Len(labels) : value.y <= labels[i].y

====
